---- MODULE Spec2Model ----
(***************************************************************************)
(* Credential and one-time-secret lifecycle of the user service            *)
(* (createUser, loginUser, sendResetCode, resetPassword, deleteUser,       *)
(* updateUser, sendVerificationCode, verifyEmail, confirmAccountByToken,   *)
(* resendConfirmationEmail) over the four tables users, reset_codes,       *)
(* verification_codes and confirmation_tokens.                             *)
(*                                                                         *)
(* Every handler is an async function; it is modelled as a process that    *)
(* takes one step per awaited database statement or notifier call.  Spec   *)
(* runs the requests one after the other, SpecConc interleaves the steps   *)
(* of two requests.                                                        *)
(***************************************************************************)
EXTENDS Integers, Sequences, FiniteSets, TLC

\* ---------------------------------------------------------------- bounds
MaxTicks      == 1    \* clock jumps per behaviour
MaxUsers      == 3    \* user ids the database hands out
MaxTokens     == 3    \* confirmation tokens randomUUID() hands out
MaxCalls      == 4    \* requests per behaviour of Spec
MaxCallsConc  == 3    \* requests per behaviour of SpecConc
MaxCallsReuse == 3    \* requests per behaviour of SpecReuse

\* ------------------------------------------------------ program constants
TTL           == 15   \* minutes a reset / verification code lives
RandomIntMin  == 100000
RandomIntMax  == 1000000

Procs      == {"p1", "p2"}
SeqProc    == "p1"
Emails     == {"a@x.com", "b@x.com"}
Passwords  == {"Passw0rd!", "N3wPassw0rd"}

NoEmail    == "none"
NoPassword == "none"
NoCode     == << >>
NoToken    == 0
NoUserId   == 0

\* ------------------------------------------------------------ pure helpers
DigitChar(d) == << "0", "1", "2", "3", "4", "5", "6", "7", "8", "9" >>[d + 1]

RECURSIVE IntToString(_)
IntToString(n) ==
    IF n < 10 THEN << DigitChar(n) >>
    ELSE Append(IntToString(n \div 10), DigitChar(n % 10))

\* A generator whose upper bound is inclusive.
randomInt_Inclusive(min, max) == { min, max }

\* crypto.randomInt(min, max): any integer in [min, max); the model draws
\* from the two ends of the range.
randomInt(min, max) == { min, max - 1 }

generateResetCode == { IntToString(n) : n \in randomInt(RandomIntMin, RandomIntMax) }

\* crypto.createHash("sha256").update(data).digest("hex"), tabulated for the
\* passwords of the model and for the empty string: 64 lower-case hex digits.
sha256hex(data) ==
    CASE data = "Passw0rd!" ->
        << "e", "6", "6", "8", "6", "0", "5", "4", "6", "f", "1", "8", "c", "d", "b", "b",
               "c", "d", "8", "6", "b", "3", "5", "e", "1", "8", "b", "5", "2", "5", "b", "f",
               "f", "c", "6", "7", "f", "7", "7", "2", "c", "6", "5", "0", "c", "e", "d", "f",
               "e", "3", "f", "f", "7", "a", "0", "0", "2", "6", "f", "a", "1", "d", "e", "e" >>
      [] data = "N3wPassw0rd" ->
        << "4", "b", "6", "3", "d", "6", "4", "f", "f", "1", "c", "b", "a", "3", "0", "3",
               "8", "2", "c", "f", "0", "f", "8", "5", "f", "e", "1", "4", "f", "7", "1", "1",
               "f", "c", "6", "d", "7", "e", "d", "c", "4", "8", "2", "d", "b", "8", "3", "8",
               "c", "b", "8", "8", "e", "3", "8", "9", "5", "3", "0", "7", "4", "6", "f", "d" >>
      [] data = "" ->
        << "e", "3", "b", "0", "c", "4", "4", "2", "9", "8", "f", "c", "1", "c", "1", "4",
               "9", "a", "f", "b", "f", "4", "c", "8", "9", "9", "6", "f", "b", "9", "2", "4",
               "2", "7", "a", "e", "4", "1", "e", "4", "6", "4", "9", "b", "9", "3", "4", "c",
               "a", "4", "9", "5", "9", "9", "1", "b", "7", "8", "5", "2", "b", "8", "5", "5" >>

\* A digest that does not depend on the password.
hashPassword_Unkeyed(password) == sha256hex("")

hashPassword(password) == sha256hex(password)

\* The character code of the ASCII characters the strings of the model use.
CharCode(c) ==
    CASE c \in { "0", "1", "2", "3", "4", "5", "6", "7", "8", "9" } ->
           48 + ( CHOOSE d \in 0..9 : DigitChar(d) = c )
      [] c = "A" -> 65   [] c = "B" -> 66   [] c = "C" -> 67
      [] c = "D" -> 68   [] c = "E" -> 69   [] c = "F" -> 70
      [] c = "a" -> 97   [] c = "b" -> 98   [] c = "c" -> 99
      [] c = "d" -> 100  [] c = "e" -> 101  [] c = "f" -> 102
      [] c = "g" -> 103  [] c = "z" -> 122

IsHexDigit(c) ==
    \/ CharCode(c) \in 48..57
    \/ CharCode(c) \in 65..70
    \/ CharCode(c) \in 97..102

\* The value of a hex digit, upper or lower case.
HexValue(c) ==
    IF CharCode(c) <= 57 THEN CharCode(c) - 48
    ELSE IF CharCode(c) <= 70 THEN CharCode(c) - 55
    ELSE CharCode(c) - 87

\* Buffer.from(str, "hex"): one byte per pair of hex digits; decoding stops
\* at the first pair that is not two hex digits, and a last digit without a
\* partner is dropped.
RECURSIVE HexDecode(_)
HexDecode(str) ==
    IF Len(str) < 2 \/ ~ IsHexDigit(str[1]) \/ ~ IsHexDigit(str[2])
    THEN << >>
    ELSE << 16 * HexValue(str[1]) + HexValue(str[2]) >>
         \o HexDecode(SubSeq(str, 3, Len(str)))

\* Buffer.from(str, encoding): the bytes of the string.  In utf8 an ASCII
\* character is the one byte of its code.
BufferFrom(str, encoding) ==
    IF encoding = "hex" THEN HexDecode(str)
    ELSE [ i \in 1..Len(str) |-> CharCode(str[i]) ]

\* A comparison that stops at the lengths.
safeStringCompare_LengthOnly(str1, str2, encoding) == Len(str1) = Len(str2)

\* A comparison that looks at the first byte only.
timingSafeEqual_FirstByte(b1, b2) == Len(b1) = 0 \/ b1[1] = b2[1]

timingSafeEqual(b1, b2) == \A i \in 1..Len(b1) : b1[i] = b2[i]

safeStringCompare(str1, str2, encoding) ==
    LET buffer1 == BufferFrom(str1, encoding)
        buffer2 == BufferFrom(str2, encoding)
    IN  IF Len(buffer1) # Len(buffer2) THEN FALSE
        ELSE timingSafeEqual(buffer1, buffer2)

\* /^\d{6}$/.test(code)
IsDigit(c) == c \in { "0", "1", "2", "3", "4", "5", "6", "7", "8", "9" }
\* A format check that only counts the characters.
SixDigits_LengthOnly(code) == Len(code) = 6

\* /^\d{6}$/.test(code)
SixDigits(code) == Len(code) = 6 /\ \A i \in 1..Len(code) : IsDigit(code[i])

\* An expiry check that never fires.
Expired_Never(t, expiresAt) == FALSE

\* new Date() > new Date(expiresAt)
Expired(t, expiresAt) == t > expiresAt

\* transporter.sendMail(mailOptions): no transporter is configured, or the
\* mail is sent, or the transport rejects it.
Transports == { "disabled", "sent", "rejected" }

\* A notifier that lets the transport's rejection through.
EmailService_Rethrow(transport) ==
    IF transport = "disabled" THEN "returns"
    ELSE IF transport = "sent" THEN "returns"
    ELSE "throws"

\* EmailService.sendVerificationEmail / sendPasswordResetEmail /
\* sendConfirmationEmail: console fallback without a transporter; with one,
\* sendMail inside try/catch, the catch logs and falls back to the console.
EmailService(transport) ==
    IF transport = "disabled" THEN "returns"
    ELSE IF transport = "sent" THEN "returns"
    ELSE "returns"

\* A submitted code: one of the codes the generator can issue, a six-digit
\* code it did not issue, or malformed input.
WrongCode     == << "1", "2", "3", "4", "5", "6" >>
MalformedCode == << "1", "2", "a", "4", "5", "6" >>
ShortCode     == << "1", "2", "3", "4", "5" >>
CodeInputs    == generateResetCode \cup { WrongCode, MalformedCode, ShortCode }

UserIds       == 1..MaxUsers

\* Overlapping requests contend for one account: its email, its id and the
\* id the next registration draws.
ConcEmails    == { "a@x.com" }
ConcCodes     == generateResetCode \cup { WrongCode }
ConcIds       == { 1, 2 }

\* ------------------------------------------------------------------ state
VARIABLES
    users,               \* table users: rows [userId, email, password, verified]
    resetCodes,          \* table reset_codes: rows [email, code, expiresAt]
    verificationCodes,   \* table verification_codes: rows [email, code, expiresAt]
    confirmationTokens,  \* table confirmation_tokens: rows [email, token]
    now,                 \* wall clock, minutes
    ticks,               \* clock advances so far
    nextUserId,          \* next uuid of users.user_id
    nextToken,           \* next uuid of crypto.randomUUID()
    ncalls,              \* requests begun so far
    calls,               \* per process: the request in flight and its locals
    consumed,            \* history: confirmation tokens whose confirmation succeeded
    resetIssues,         \* history: per email, the reset codes stored so far, in order
    tokenIssues          \* history: per email, the confirmation tokens stored so far

tables  == << users, resetCodes, verificationCodes, confirmationTokens >>
clock   == << now, ticks >>
uuids   == << nextUserId, nextToken >>
history == << consumed, resetIssues, tokenIssues >>
vars == << users, resetCodes, verificationCodes, confirmationTokens, now, ticks,
           nextUserId, nextToken, ncalls, calls, consumed, resetIssues, tokenIssues >>

\* users.verified: not a column of the schema under src; the account
\* record of the specification carries it with default false.
DefaultVerified == FALSE

\* A request: its operation and position, its arguments (email, password,
\* code, token, userId, newEmail), its locals (genCode, genToken, expiresAt,
\* rowEmail), its outcome, and what is known of it for the properties: what
\* it was when it began (opening), what it read (note, seen) and whether
\* another request was in flight with it (overlap).
\* No row: what a select that matches nothing leaves in the handler's local.
NoRow ==
    [ userId |-> NoUserId, email |-> NoEmail, password |-> << >>, verified |-> FALSE ]

\* null, as a User: what getUserById and getUserByEmail return for no match,
\* and what an operation that returns no user leaves.
NoUser == [ userId |-> NoUserId, email |-> NoEmail, verified |-> FALSE ]

NoCall ==
    [ op |-> "none", pc |-> "idle", email |-> NoEmail, password |-> NoPassword,
      code |-> NoCode, token |-> NoToken, userId |-> NoUserId,
      newEmail |-> NoEmail, genCode |-> NoCode, genToken |-> NoToken,
      expiresAt |-> 0, rowEmail |-> NoEmail, result |-> "none",
      opening |-> "none", note |-> "none", seen |-> 0, overlap |-> FALSE,
      row |-> NoRow, returned |-> NoUser ]

Call(op, pc) == [ NoCall EXCEPT !.op = op, !.pc = pc ]

Init ==
    /\ users = {}
    /\ resetCodes = {}
    /\ verificationCodes = {}
    /\ confirmationTokens = {}
    /\ now = 0
    /\ ticks = 0
    /\ nextUserId = 1
    /\ nextToken = 1
    /\ ncalls = 0
    /\ calls = [ p \in Procs |-> NoCall ]
    /\ consumed = {}
    /\ resetIssues = [ e \in Emails |-> << >> ]
    /\ tokenIssues = [ e \in Emails |-> << >> ]

\* ------------------------------------------------------ database statements
\* select ... where email = e
ByEmail(table, e) == { r \in table : r.email = e }
\* select ... from users where user_id = id
ById(id) == { u \in users : u.userId = id }
\* select ... from confirmation_tokens where token = t
ByToken(t) == { r \in confirmationTokens : r.token = t }

\* A table without the unique index.
EmailTaken_NoIndex(table, e) == FALSE

\* The unique index on the email column (primary key of the three secret
\* tables, users_email_unique on users): an insert or update that would
\* give two rows the same email is rejected by the database.
EmailTaken(table, e) == \E r \in table : r.email = e

\* A delete by email that removes nothing.
DeleteByEmail_Nothing(table, e) == table

\* delete ... where email = e
DeleteByEmail(table, e) == { r \in table : r.email # e }

\* A delete that removes nothing.
DeleteByToken_Nothing(table, t) == table

\* delete from confirmation_tokens where token = t
DeleteByToken(table, t) == { r \in table : r.token # t }

\* ------------------------------------------------------------ bookkeeping
Idle(p) == calls[p].pc \in { "idle", "done" }
Quiet == \A p \in Procs : Idle(p)

Goto(p, pc) == calls' = [ calls EXCEPT ![p].pc = pc ]

\* A user row returned whole.
userWithoutPassword_Whole(user) == user

\* const { password: _, ...userWithoutPassword } = user
userWithoutPassword(user) ==
    [ field \in DOMAIN user \ { "password" } |-> user[field] ]

\* What the caller gets back: sendResetCode and sendVerificationCode return
\* { code, expiresAt }; createUser, loginUser, updateUser, getUserById and
\* getUserByEmail return the row they hold without its password, the getters
\* null when they hold none; every other operation only succeeds or throws.
Returned(c, result) ==
    IF result = "OK" /\ c.op \in { "sendResetCode", "sendVerificationCode" }
    THEN [ NoCall EXCEPT !.genCode = c.genCode, !.expiresAt = c.expiresAt ]
    ELSE IF result = "OK" /\ c.row # NoRow
         THEN [ NoCall EXCEPT !.returned = userWithoutPassword(c.row) ]
         ELSE NoCall

\* The request ends.  The process keeps the operation, the email and code it
\* was about, the outcome and what the request observed, and the password a
\* successful resetPassword has set; the other locals go.
Done(c, result) ==
    [ Returned(c, result) EXCEPT
        !.op = c.op, !.pc = "done", !.result = result,
        !.password = IF c.op = "resetPassword" /\ result = "OK"
                     THEN c.password ELSE NoPassword,
        !.email = IF c.email # NoEmail THEN c.email ELSE c.rowEmail,
        !.code = c.code, !.opening = c.opening, !.note = c.note, !.seen = c.seen,
        !.overlap = c.overlap ]

Finish(p, c, result) == calls' = [ calls EXCEPT ![p] = Done(c, result) ]
Return(p, result) == Finish(p, calls[p], result)

\* A request begins on an idle process; it and every request in flight are
\* marked as overlapping when another request is in flight.
Begin(p, c) ==
    /\ Idle(p)
    /\ ncalls' = ncalls + 1
    /\ calls' = [ q \in Procs |->
                    IF q = p THEN [ c EXCEPT !.overlap = ~ Quiet ]
                    ELSE IF Idle(q) THEN calls[q]
                    ELSE [ calls[q] EXCEPT !.overlap = TRUE ] ]
    /\ UNCHANGED << tables, clock, uuids, history >>

\* The clock moves between any two statements: it jumps to just before, onto
\* or just past the expiry of a code issued at the time it jumps from.
Tick ==
    /\ ticks < MaxTicks
    /\ \E d \in { TTL - 1, TTL, TTL + 1 } : now' = now + d
    /\ ticks' = ticks + 1
    /\ UNCHANGED << tables, uuids, ncalls, calls, history >>

\* What a consuming request observes when it reads the stored secret: the
\* submitted code is the stored one, read before, at or after expiresAt; or
\* it is a code stored earlier for the email and since replaced ("stale");
\* or it is some other code.
Observe(issues, row, code, t) ==
    IF row.code = code
    THEN IF t < row.expiresAt THEN "before"
         ELSE IF t = row.expiresAt THEN "at" ELSE "after"
    ELSE IF \E i \in 1..Len(issues) : issues[i] = code THEN "stale"
    ELSE "mismatch"

\* What a request is known to be when it begins: a confirmation with a token
\* already consumed ("replay") or with a token since replaced by a later one
\* of its email ("replaced"); the repeat of the request this process just saw
\* fail as expired ("after-expired"); the request, with another code, that
\* follows one this process just saw fail on a wrong code ("after-wrong").
Opening(p, op, e, code, t) ==
    IF op = "confirmAccountByToken"
    THEN IF t \in consumed THEN "replay"
         ELSE IF \E a \in Emails : \E i \in 1..(Len(tokenIssues[a]) - 1) :
                    tokenIssues[a][i] = t
              THEN "replaced"
              ELSE "none"
    ELSE IF /\ calls[p].pc = "done" /\ calls[p].op = op /\ calls[p].email = e
            /\ calls[p].code = code
            /\ calls[p].result \in { "RESET_CODE_EXPIRED", "VERIFICATION_CODE_EXPIRED" }
         THEN "after-expired"
         ELSE IF /\ calls[p].pc = "done" /\ calls[p].op = op /\ calls[p].email = e
                 /\ calls[p].code # code
                 /\ calls[p].result \in { "INVALID_RESET_CODE",
                                          "INVALID_VERIFICATION_CODE" }
              THEN "after-wrong"
              ELSE "none"

\* What a loginUser is known to be when it begins right after this process
\* saw resetPassword succeed for the same email: a login with the password
\* that reset has set, or with any other password.
LoginOpening(p, e, pw) ==
    IF /\ calls[p].pc = "done" /\ calls[p].op = "resetPassword"
       /\ calls[p].result = "OK" /\ calls[p].email = e
    THEN IF pw = calls[p].password THEN "after-reset-new" ELSE "after-reset-other"
    ELSE "none"

\* ---------------------------------------------------------------- handlers
At(p, op, pc) == calls[p].op = op /\ calls[p].pc = pc

\* await emailService.send...(email, secret), the last statement of an
\* issuing operation: the operation returns when the notifier returns and
\* fails with the notifier's error when it throws.  The request notes what
\* the transport did.
Notify(p, transport) ==
    LET noted == [ calls[p] EXCEPT !.note = transport ]
    IN  IF EmailService(transport) = "throws"
        THEN Finish(p, noted, "NOTIFIER_ERROR")
        ELSE Finish(p, noted, "OK")

\* Requests that will still draw a user id / a token; a new request begins
\* only while the supply of fresh uuids covers them.
PendingIds ==
    Cardinality({ q \in Procs : calls[q].op = "createUser"
                                 /\ calls[q].pc \in { "cu_select", "cu_insert" } })
PendingTokens ==
    Cardinality({ q \in Procs :
        \/ calls[q].op = "createUser" /\ calls[q].pc \in { "cu_select", "cu_insert" }
        \/ calls[q].op = "resendConfirmationEmail" /\ calls[q].pc = "rc_user" })

\* generateAndSendConfirmationToken(email): delete the email's token, insert
\* the new one, hand it to the notifier.
generateAndSendConfirmationToken(p) ==
    /\ calls[p].op \in { "createUser", "resendConfirmationEmail" }
    /\ \/ /\ calls[p].pc = "gt_delete"
          /\ confirmationTokens' = DeleteByEmail(confirmationTokens, calls[p].email)
          /\ Goto(p, "gt_insert")
          /\ UNCHANGED tokenIssues
       \/ /\ calls[p].pc = "gt_insert"
          /\ IF EmailTaken(confirmationTokens, calls[p].email)
             THEN /\ Return(p, "DB_ERROR")
                  /\ UNCHANGED << confirmationTokens, tokenIssues >>
             ELSE /\ confirmationTokens' = confirmationTokens \cup
                         { [ email |-> calls[p].email, token |-> calls[p].genToken ] }
                  /\ tokenIssues' = [ tokenIssues EXCEPT ![calls[p].email] =
                                        Append(@, calls[p].genToken) ]
                  /\ Goto(p, "gt_send")
       \/ /\ calls[p].pc = "gt_send"
          /\ \E transport \in Transports : Notify(p, transport)
          /\ UNCHANGED << confirmationTokens, tokenIssues >>
    /\ UNCHANGED << users, resetCodes, verificationCodes, clock, uuids, ncalls, consumed,
                    resetIssues >>

\* A createUser that returns the new account without issuing a token.
createUser_NoToken(p) ==
    /\ calls[p].op = "createUser"
    /\ \/ /\ calls[p].pc = "cu_select"
          /\ IF ByEmail(users, calls[p].email) # {}
             THEN Return(p, "USER_ALREADY_EXISTS")
             ELSE Goto(p, "cu_insert")
          /\ UNCHANGED << users, uuids >>
       \/ /\ calls[p].pc = "cu_insert"
          /\ IF EmailTaken(users, calls[p].email)
             THEN /\ Return(p, "DB_ERROR")
                  /\ UNCHANGED << users, uuids >>
             ELSE /\ users' = users \cup
                         { [ userId |-> nextUserId, email |-> calls[p].email,
                             password |-> hashPassword(calls[p].password),
                             verified |-> DefaultVerified ] }
                  /\ nextUserId' = nextUserId + 1
                  /\ UNCHANGED nextToken
                  /\ Return(p, "OK")
    /\ UNCHANGED << resetCodes, verificationCodes, confirmationTokens, clock, ncalls,
                    history >>

createUser(p) ==
    /\ calls[p].op = "createUser"
    /\ \/ /\ calls[p].pc = "cu_select"
          /\ IF ByEmail(users, calls[p].email) # {}
             THEN Return(p, "USER_ALREADY_EXISTS")
             ELSE Goto(p, "cu_insert")
          /\ UNCHANGED << users, uuids >>
       \/ /\ calls[p].pc = "cu_insert"
          /\ IF EmailTaken(users, calls[p].email)
             THEN /\ Return(p, "DB_ERROR")
                  /\ UNCHANGED << users, uuids >>
             ELSE LET newUser == [ userId |-> nextUserId, email |-> calls[p].email,
                                   password |-> hashPassword(calls[p].password),
                                   verified |-> DefaultVerified ]
                  IN  /\ users' = users \cup { newUser }
                      /\ nextUserId' = nextUserId + 1
                      /\ nextToken' = nextToken + 1
                      /\ calls' = [ calls EXCEPT ![p].pc = "gt_delete",
                                                 ![p].userId = nextUserId,
                                                 ![p].genToken = nextToken,
                                                 ![p].row = newUser ]
    /\ UNCHANGED << resetCodes, verificationCodes, confirmationTokens, clock, ncalls,
                    history >>

\* A resendConfirmationEmail that sends the stored token again when there
\* is one.
resendConfirmationEmail_SameToken(p) ==
    /\ At(p, "resendConfirmationEmail", "rc_user")
    /\ IF ByEmail(users, calls[p].email) = {}
       THEN /\ Return(p, "USER_NOT_FOUND")
            /\ UNCHANGED nextToken
       ELSE IF ByEmail(confirmationTokens, calls[p].email) = {}
            THEN /\ nextToken' = nextToken + 1
                 /\ calls' = [ calls EXCEPT ![p].pc = "gt_delete",
                                            ![p].genToken = nextToken ]
            ELSE /\ UNCHANGED nextToken
                 /\ \E row \in ByEmail(confirmationTokens, calls[p].email) :
                      calls' = [ calls EXCEPT ![p].pc = "gt_delete",
                                              ![p].genToken = row.token ]
    /\ UNCHANGED << tables, clock, nextUserId, ncalls, history >>

resendConfirmationEmail(p) ==
    /\ At(p, "resendConfirmationEmail", "rc_user")
    /\ IF ByEmail(users, calls[p].email) = {}
       THEN /\ Return(p, "USER_NOT_FOUND")
            /\ UNCHANGED nextToken
       ELSE /\ nextToken' = nextToken + 1
            /\ calls' = [ calls EXCEPT ![p].pc = "gt_delete", ![p].genToken = nextToken ]
    /\ UNCHANGED << tables, clock, nextUserId, ncalls, history >>

confirmAccountByToken(p) ==
    /\ calls[p].op = "confirmAccountByToken"
    /\ \/ /\ calls[p].pc = "ca_select"
          /\ IF ByToken(calls[p].token) = {}
             THEN Return(p, "CONFIRMATION_TOKEN_NOT_FOUND")
             ELSE \E confirmationData \in ByToken(calls[p].token) :
                    calls' = [ calls EXCEPT ![p].pc = "ca_user",
                                            ![p].rowEmail = confirmationData.email ]
          /\ UNCHANGED << confirmationTokens, consumed >>
       \/ /\ calls[p].pc = "ca_user"
          /\ IF ByEmail(users, calls[p].rowEmail) = {}
             THEN Return(p, "USER_NOT_FOUND")
             ELSE Goto(p, "ca_delete")
          /\ UNCHANGED << confirmationTokens, consumed >>
       \/ /\ calls[p].pc = "ca_delete"
          /\ confirmationTokens' = DeleteByToken(confirmationTokens, calls[p].token)
          /\ consumed' = consumed \cup { calls[p].token }
          /\ Return(p, "OK")
    /\ UNCHANGED << users, resetCodes, verificationCodes, clock, uuids, ncalls,
                    resetIssues, tokenIssues >>

\* A loginUser that tells an unknown email from a wrong password.
loginUser_Revealing(p) ==
    /\ At(p, "loginUser", "lu_select")
    /\ LET hashedPassword == hashPassword(calls[p].password)
           matched == ByEmail(users, calls[p].email)
       IN  IF matched = {}
           THEN Return(p, "USER_NOT_FOUND")
           ELSE \E matchedUser \in matched :
                  IF safeStringCompare(matchedUser.password, hashedPassword, "hex")
                  THEN Return(p, "OK")
                  ELSE Return(p, "INVALID_CREDENTIALS")
    /\ UNCHANGED << tables, clock, uuids, ncalls, history >>

loginUser(p) ==
    /\ At(p, "loginUser", "lu_select")
    /\ LET hashedPassword == hashPassword(calls[p].password)
           matched == ByEmail(users, calls[p].email)
       IN  IF matched = {}
           THEN Return(p, "INVALID_CREDENTIALS")
           ELSE \E matchedUser \in matched :
                  IF safeStringCompare(matchedUser.password, hashedPassword, "hex")
                  THEN Finish(p, [ calls[p] EXCEPT !.row = matchedUser ], "OK")
                  ELSE Return(p, "INVALID_CREDENTIALS")
    /\ UNCHANGED << tables, clock, uuids, ncalls, history >>

\* A sendResetCode that issues a code without looking the account up.
sendResetCode_NoUserCheck(p) ==
    /\ calls[p].op = "sendResetCode"
    /\ \/ /\ calls[p].pc = "sr_user"
          /\ \E code \in generateResetCode :
               calls' = [ calls EXCEPT ![p].pc = "sr_delete", ![p].genCode = code,
                                       ![p].expiresAt = now + TTL ]
          /\ UNCHANGED << resetCodes, resetIssues >>
       \/ /\ calls[p].pc = "sr_delete"
          /\ resetCodes' = DeleteByEmail(resetCodes, calls[p].email)
          /\ Goto(p, "sr_insert")
          /\ UNCHANGED resetIssues
       \/ /\ calls[p].pc = "sr_insert"
          /\ IF EmailTaken(resetCodes, calls[p].email)
             THEN /\ Return(p, "DB_ERROR")
                  /\ UNCHANGED << resetCodes, resetIssues >>
             ELSE /\ resetCodes' = resetCodes \cup
                         { [ email |-> calls[p].email, code |-> calls[p].genCode,
                             expiresAt |-> calls[p].expiresAt ] }
                  /\ resetIssues' = [ resetIssues EXCEPT ![calls[p].email] =
                                        Append(@, calls[p].genCode) ]
                  /\ Goto(p, "sr_send")
       \/ /\ calls[p].pc = "sr_send"
          /\ \E transport \in Transports : Notify(p, transport)
          /\ UNCHANGED << resetCodes, resetIssues >>
    /\ UNCHANGED << users, verificationCodes, confirmationTokens, clock, uuids, ncalls,
                    consumed, tokenIssues >>

sendResetCode(p) ==
    /\ calls[p].op = "sendResetCode"
    /\ \/ /\ calls[p].pc = "sr_user"
          /\ IF ByEmail(users, calls[p].email) = {}
             THEN Return(p, "USER_NOT_FOUND")
             ELSE \E code \in generateResetCode :
                    calls' = [ calls EXCEPT ![p].pc = "sr_delete", ![p].genCode = code,
                                            ![p].expiresAt = now + TTL ]
          /\ UNCHANGED << resetCodes, resetIssues >>
       \/ /\ calls[p].pc = "sr_delete"
          /\ resetCodes' = DeleteByEmail(resetCodes, calls[p].email)
          /\ Goto(p, "sr_insert")
          /\ UNCHANGED resetIssues
       \/ /\ calls[p].pc = "sr_insert"
          /\ IF EmailTaken(resetCodes, calls[p].email)
             THEN /\ Return(p, "DB_ERROR")
                  /\ UNCHANGED << resetCodes, resetIssues >>
             ELSE /\ resetCodes' = resetCodes \cup
                         { [ email |-> calls[p].email, code |-> calls[p].genCode,
                             expiresAt |-> calls[p].expiresAt ] }
                  /\ resetIssues' = [ resetIssues EXCEPT ![calls[p].email] =
                                        Append(@, calls[p].genCode) ]
                  /\ Goto(p, "sr_send")
       \/ /\ calls[p].pc = "sr_send"
          /\ \E transport \in Transports : Notify(p, transport)
          /\ UNCHANGED << resetCodes, resetIssues >>
    /\ UNCHANGED << users, verificationCodes, confirmationTokens, clock, uuids, ncalls,
                    consumed, tokenIssues >>

\* A resetPassword that tests the expiry before it compares the code.
resetPassword_ExpiryFirst(p) ==
    /\ calls[p].op = "resetPassword"
    /\ \/ /\ calls[p].pc = "rp_user"
          /\ IF ByEmail(users, calls[p].email) = {}
             THEN Return(p, "USER_NOT_FOUND")
             ELSE Goto(p, "rp_select")
          /\ UNCHANGED << users, resetCodes >>
       \/ /\ calls[p].pc = "rp_select"
          /\ IF ByEmail(resetCodes, calls[p].email) = {}
             THEN Return(p, "RESET_CODE_NOT_FOUND")
             ELSE \E resetData \in ByEmail(resetCodes, calls[p].email) :
                    LET issues == resetIssues[calls[p].email]
                        seeing == [ calls[p] EXCEPT
                                      !.note = Observe(issues, resetData, calls[p].code, now),
                                      !.seen = Len(issues) ]
                    IN  IF Expired(now, resetData.expiresAt)
                        THEN calls' = [ calls EXCEPT ![p] =
                                          [ seeing EXCEPT !.pc = "rp_purge" ] ]
                        ELSE IF ~ safeStringCompare(resetData.code, calls[p].code, "utf8")
                             THEN Finish(p, seeing, "INVALID_RESET_CODE")
                             ELSE calls' = [ calls EXCEPT ![p] =
                                               [ seeing EXCEPT !.pc = "rp_update" ] ]
          /\ UNCHANGED << users, resetCodes >>
       \/ /\ calls[p].pc = "rp_purge"
          /\ resetCodes' = DeleteByEmail(resetCodes, calls[p].email)
          /\ Return(p, "RESET_CODE_EXPIRED")
          /\ UNCHANGED users
       \/ /\ calls[p].pc = "rp_update"
          /\ users' = { IF u.email = calls[p].email
                        THEN [ u EXCEPT !.password = hashPassword(calls[p].password) ]
                        ELSE u : u \in users }
          /\ Goto(p, "rp_delete")
          /\ UNCHANGED resetCodes
       \/ /\ calls[p].pc = "rp_delete"
          /\ resetCodes' = DeleteByEmail(resetCodes, calls[p].email)
          /\ Return(p, "OK")
          /\ UNCHANGED users
    /\ UNCHANGED << verificationCodes, confirmationTokens, clock, uuids, ncalls, history >>

\* A resetPassword that discards the stored code when the submitted one
\* does not match it.
resetPassword_PurgeOnMismatch(p) ==
    /\ calls[p].op = "resetPassword"
    /\ \/ /\ calls[p].pc = "rp_user"
          /\ IF ByEmail(users, calls[p].email) = {}
             THEN Return(p, "USER_NOT_FOUND")
             ELSE Goto(p, "rp_select")
          /\ UNCHANGED << users, resetCodes >>
       \/ /\ calls[p].pc = "rp_select"
          /\ IF ByEmail(resetCodes, calls[p].email) = {}
             THEN Return(p, "RESET_CODE_NOT_FOUND")
             ELSE \E resetData \in ByEmail(resetCodes, calls[p].email) :
                    LET issues == resetIssues[calls[p].email]
                        seeing == [ calls[p] EXCEPT
                                      !.note = Observe(issues, resetData, calls[p].code, now),
                                      !.seen = Len(issues) ]
                    IN  IF ~ safeStringCompare(resetData.code, calls[p].code, "utf8")
                        THEN Finish(p, seeing, "INVALID_RESET_CODE")
                        ELSE IF Expired(now, resetData.expiresAt)
                             THEN calls' = [ calls EXCEPT ![p] =
                                               [ seeing EXCEPT !.pc = "rp_purge" ] ]
                             ELSE calls' = [ calls EXCEPT ![p] =
                                               [ seeing EXCEPT !.pc = "rp_update" ] ]
          /\ resetCodes' =
                IF \E resetData \in ByEmail(resetCodes, calls[p].email) :
                     ~ safeStringCompare(resetData.code, calls[p].code, "utf8")
                THEN DeleteByEmail(resetCodes, calls[p].email)
                ELSE resetCodes
          /\ UNCHANGED users
       \/ /\ calls[p].pc = "rp_purge"
          /\ resetCodes' = DeleteByEmail(resetCodes, calls[p].email)
          /\ Return(p, "RESET_CODE_EXPIRED")
          /\ UNCHANGED users
       \/ /\ calls[p].pc = "rp_update"
          /\ users' = { IF u.email = calls[p].email
                        THEN [ u EXCEPT !.password = hashPassword(calls[p].password) ]
                        ELSE u : u \in users }
          /\ Goto(p, "rp_delete")
          /\ UNCHANGED resetCodes
       \/ /\ calls[p].pc = "rp_delete"
          /\ resetCodes' = DeleteByEmail(resetCodes, calls[p].email)
          /\ Return(p, "OK")
          /\ UNCHANGED users
    /\ UNCHANGED << verificationCodes, confirmationTokens, clock, uuids, ncalls, history >>

resetPassword(p) ==
    /\ calls[p].op = "resetPassword"
    /\ \/ /\ calls[p].pc = "rp_user"
          /\ IF ByEmail(users, calls[p].email) = {}
             THEN Return(p, "USER_NOT_FOUND")
             ELSE Goto(p, "rp_select")
          /\ UNCHANGED << users, resetCodes >>
       \/ /\ calls[p].pc = "rp_select"
          /\ IF ByEmail(resetCodes, calls[p].email) = {}
             THEN Return(p, "RESET_CODE_NOT_FOUND")
             ELSE \E resetData \in ByEmail(resetCodes, calls[p].email) :
                    LET issues == resetIssues[calls[p].email]
                        seeing == [ calls[p] EXCEPT
                                      !.note = Observe(issues, resetData, calls[p].code, now),
                                      !.seen = Len(issues) ]
                    IN  IF ~ safeStringCompare(resetData.code, calls[p].code, "utf8")
                        THEN Finish(p, seeing, "INVALID_RESET_CODE")
                        ELSE IF Expired(now, resetData.expiresAt)
                             THEN calls' = [ calls EXCEPT ![p] =
                                               [ seeing EXCEPT !.pc = "rp_purge" ] ]
                             ELSE calls' = [ calls EXCEPT ![p] =
                                               [ seeing EXCEPT !.pc = "rp_update" ] ]
          /\ UNCHANGED << users, resetCodes >>
       \/ /\ calls[p].pc = "rp_purge"
          /\ resetCodes' = DeleteByEmail(resetCodes, calls[p].email)
          /\ Return(p, "RESET_CODE_EXPIRED")
          /\ UNCHANGED users
       \/ /\ calls[p].pc = "rp_update"
          /\ users' = { IF u.email = calls[p].email
                        THEN [ u EXCEPT !.password = hashPassword(calls[p].password) ]
                        ELSE u : u \in users }
          /\ Goto(p, "rp_delete")
          /\ UNCHANGED resetCodes
       \/ /\ calls[p].pc = "rp_delete"
          /\ resetCodes' = DeleteByEmail(resetCodes, calls[p].email)
          /\ Return(p, "OK")
          /\ UNCHANGED users
    /\ UNCHANGED << verificationCodes, confirmationTokens, clock, uuids, ncalls, history >>

\* A sendVerificationCode that stores a code generated anew instead of the
\* one it goes on to send.
sendVerificationCode_StoresFresh(p) ==
    /\ calls[p].op = "sendVerificationCode"
    /\ \/ /\ calls[p].pc = "sv_user"
          /\ IF ByEmail(users, calls[p].email) = {}
             THEN Return(p, "USER_NOT_FOUND")
             ELSE \E code \in generateResetCode :
                    calls' = [ calls EXCEPT ![p].pc = "sv_delete", ![p].genCode = code,
                                            ![p].expiresAt = now + TTL ]
          /\ UNCHANGED verificationCodes
       \/ /\ calls[p].pc = "sv_delete"
          /\ verificationCodes' = DeleteByEmail(verificationCodes, calls[p].email)
          /\ Goto(p, "sv_insert")
       \/ /\ calls[p].pc = "sv_insert"
          /\ IF EmailTaken(verificationCodes, calls[p].email)
             THEN /\ Return(p, "DB_ERROR")
                  /\ UNCHANGED verificationCodes
             ELSE /\ \E code \in generateResetCode :
                       verificationCodes' = verificationCodes \cup
                         { [ email |-> calls[p].email, code |-> code,
                             expiresAt |-> calls[p].expiresAt ] }
                  /\ Goto(p, "sv_send")
       \/ /\ calls[p].pc = "sv_send"
          /\ \E transport \in Transports : Notify(p, transport)
          /\ UNCHANGED verificationCodes
    /\ UNCHANGED << users, resetCodes, confirmationTokens, clock, uuids, ncalls, history >>

sendVerificationCode(p) ==
    /\ calls[p].op = "sendVerificationCode"
    /\ \/ /\ calls[p].pc = "sv_user"
          /\ IF ByEmail(users, calls[p].email) = {}
             THEN Return(p, "USER_NOT_FOUND")
             ELSE \E code \in generateResetCode :
                    calls' = [ calls EXCEPT ![p].pc = "sv_delete", ![p].genCode = code,
                                            ![p].expiresAt = now + TTL ]
          /\ UNCHANGED verificationCodes
       \/ /\ calls[p].pc = "sv_delete"
          /\ verificationCodes' = DeleteByEmail(verificationCodes, calls[p].email)
          /\ Goto(p, "sv_insert")
       \/ /\ calls[p].pc = "sv_insert"
          /\ IF EmailTaken(verificationCodes, calls[p].email)
             THEN /\ Return(p, "DB_ERROR")
                  /\ UNCHANGED verificationCodes
             ELSE /\ verificationCodes' = verificationCodes \cup
                         { [ email |-> calls[p].email, code |-> calls[p].genCode,
                             expiresAt |-> calls[p].expiresAt ] }
                  /\ Goto(p, "sv_send")
       \/ /\ calls[p].pc = "sv_send"
          /\ \E transport \in Transports : Notify(p, transport)
          /\ UNCHANGED verificationCodes
    /\ UNCHANGED << users, resetCodes, confirmationTokens, clock, uuids, ncalls, history >>

\* A verifyEmail whose final delete clears every code of the email.
verifyEmail_ClearsReset(p) ==
    /\ calls[p].op = "verifyEmail"
    /\ \/ /\ calls[p].pc = "ve_user"
          /\ IF ~ SixDigits(calls[p].code)
             THEN Return(p, "INVALID_CODE_FORMAT")
             ELSE IF ByEmail(users, calls[p].email) = {}
                  THEN Return(p, "USER_NOT_FOUND")
                  ELSE Goto(p, "ve_select")
          /\ UNCHANGED << verificationCodes, resetCodes >>
       \/ /\ calls[p].pc = "ve_select"
          /\ IF ByEmail(verificationCodes, calls[p].email) = {}
             THEN Return(p, "VERIFICATION_CODE_NOT_FOUND")
             ELSE \E verificationData \in ByEmail(verificationCodes, calls[p].email) :
                    LET seeing == [ calls[p] EXCEPT
                                      !.note = Observe(<< >>, verificationData,
                                                       calls[p].code, now) ]
                    IN  IF ~ safeStringCompare(verificationData.code, calls[p].code, "utf8")
                        THEN Finish(p, seeing, "INVALID_VERIFICATION_CODE")
                        ELSE IF Expired(now, verificationData.expiresAt)
                             THEN calls' = [ calls EXCEPT ![p] =
                                               [ seeing EXCEPT !.pc = "ve_purge" ] ]
                             ELSE calls' = [ calls EXCEPT ![p] =
                                               [ seeing EXCEPT !.pc = "ve_delete" ] ]
          /\ UNCHANGED << verificationCodes, resetCodes >>
       \/ /\ calls[p].pc = "ve_purge"
          /\ verificationCodes' = DeleteByEmail(verificationCodes, calls[p].email)
          /\ Return(p, "VERIFICATION_CODE_EXPIRED")
          /\ UNCHANGED resetCodes
       \/ /\ calls[p].pc = "ve_delete"
          /\ verificationCodes' = DeleteByEmail(verificationCodes, calls[p].email)
          /\ resetCodes' = DeleteByEmail(resetCodes, calls[p].email)
          /\ Return(p, "OK")
    /\ UNCHANGED << users, confirmationTokens, clock, uuids, ncalls, history >>

verifyEmail(p) ==
    /\ calls[p].op = "verifyEmail"
    /\ \/ /\ calls[p].pc = "ve_user"
          /\ IF ~ SixDigits(calls[p].code)
             THEN Return(p, "INVALID_CODE_FORMAT")
             ELSE IF ByEmail(users, calls[p].email) = {}
                  THEN Return(p, "USER_NOT_FOUND")
                  ELSE Goto(p, "ve_select")
          /\ UNCHANGED verificationCodes
       \/ /\ calls[p].pc = "ve_select"
          /\ IF ByEmail(verificationCodes, calls[p].email) = {}
             THEN Return(p, "VERIFICATION_CODE_NOT_FOUND")
             ELSE \E verificationData \in ByEmail(verificationCodes, calls[p].email) :
                    LET seeing == [ calls[p] EXCEPT
                                      !.note = Observe(<< >>, verificationData,
                                                       calls[p].code, now) ]
                    IN  IF ~ safeStringCompare(verificationData.code, calls[p].code, "utf8")
                        THEN Finish(p, seeing, "INVALID_VERIFICATION_CODE")
                        ELSE IF Expired(now, verificationData.expiresAt)
                             THEN calls' = [ calls EXCEPT ![p] =
                                               [ seeing EXCEPT !.pc = "ve_purge" ] ]
                             ELSE calls' = [ calls EXCEPT ![p] =
                                               [ seeing EXCEPT !.pc = "ve_delete" ] ]
          /\ UNCHANGED verificationCodes
       \/ /\ calls[p].pc = "ve_purge"
          /\ verificationCodes' = DeleteByEmail(verificationCodes, calls[p].email)
          /\ Return(p, "VERIFICATION_CODE_EXPIRED")
       \/ /\ calls[p].pc = "ve_delete"
          /\ verificationCodes' = DeleteByEmail(verificationCodes, calls[p].email)
          /\ Return(p, "OK")
    /\ UNCHANGED << users, resetCodes, confirmationTokens, clock, uuids, ncalls, history >>

deleteUser(p) ==
    /\ calls[p].op = "deleteUser"
    /\ \/ /\ calls[p].pc = "du_select"
          /\ IF ById(calls[p].userId) = {}
             THEN Return(p, "USER_NOT_FOUND")
             ELSE \E user \in ById(calls[p].userId) :
                    calls' = [ calls EXCEPT ![p].pc = "du_delete",
                                            ![p].rowEmail = user.email ]
          /\ UNCHANGED << users, resetCodes >>
       \/ /\ calls[p].pc = "du_delete"
          /\ users' = { u \in users : u.userId # calls[p].userId }
          /\ Goto(p, "du_codes")
          /\ UNCHANGED resetCodes
       \/ /\ calls[p].pc = "du_codes"
          /\ resetCodes' = DeleteByEmail(resetCodes, calls[p].rowEmail)
          /\ Return(p, "OK")
          /\ UNCHANGED users
    /\ UNCHANGED << verificationCodes, confirmationTokens, clock, uuids, ncalls, history >>

\* updates.email / updates.password are NoEmail / NoPassword when absent.
updateUser(p) ==
    /\ calls[p].op = "updateUser"
    /\ \/ /\ calls[p].pc = "uu_select"
          /\ IF ById(calls[p].userId) = {}
             THEN Return(p, "USER_NOT_FOUND")
             ELSE \E user \in ById(calls[p].userId) :
                    IF calls[p].newEmail # NoEmail /\ calls[p].newEmail # user.email
                    THEN Goto(p, "uu_check")
                    ELSE Goto(p, "uu_update")
          /\ UNCHANGED users
       \/ /\ calls[p].pc = "uu_check"
          /\ IF ByEmail(users, calls[p].newEmail) # {}
             THEN Return(p, "EMAIL_ALREADY_IN_USE")
             ELSE Goto(p, "uu_update")
          /\ UNCHANGED users
       \/ /\ calls[p].pc = "uu_update"
          /\ IF ById(calls[p].userId) = {}
             THEN /\ Return(p, "INTERNAL_SERVER_ERROR")
                  /\ UNCHANGED users
             ELSE IF /\ calls[p].newEmail # NoEmail
                     /\ EmailTaken({ u \in users : u.userId # calls[p].userId },
                                   calls[p].newEmail)
                  THEN /\ Return(p, "DB_ERROR")
                       /\ UNCHANGED users
                  ELSE \E user \in ById(calls[p].userId) :
                         LET updatedUser ==
                               [ user EXCEPT
                                   !.email = IF calls[p].newEmail # NoEmail
                                             THEN calls[p].newEmail ELSE @,
                                   !.password = IF calls[p].password # NoPassword
                                                THEN hashPassword(calls[p].password)
                                                ELSE @ ]
                         IN  /\ users' = { IF u.userId = calls[p].userId
                                           THEN updatedUser ELSE u : u \in users }
                             /\ Finish(p, [ calls[p] EXCEPT !.row = updatedUser ], "OK")
    /\ UNCHANGED << resetCodes, verificationCodes, confirmationTokens, clock, uuids,
                    ncalls, history >>

getUserById(p) ==
    /\ At(p, "getUserById", "gi_select")
    /\ IF ById(calls[p].userId) = {}
       THEN Return(p, "OK")
       ELSE \E user \in ById(calls[p].userId) :
              Finish(p, [ calls[p] EXCEPT !.row = user ], "OK")
    /\ UNCHANGED << tables, clock, uuids, ncalls, history >>

getUserByEmail(p) ==
    /\ At(p, "getUserByEmail", "ge_select")
    /\ IF ByEmail(users, calls[p].email) = {}
       THEN Return(p, "OK")
       ELSE \E user \in ByEmail(users, calls[p].email) :
              Finish(p, [ calls[p] EXCEPT !.row = user ], "OK")
    /\ UNCHANGED << tables, clock, uuids, ncalls, history >>

\* ------------------------------------------------------------- the requests
Request(p, emails, codes, ids) ==
    \/ \E e \in emails, pw \in Passwords :
         /\ nextUserId + PendingIds <= MaxUsers
         /\ nextToken + PendingTokens <= MaxTokens
         /\ Begin(p, [ Call("createUser", "cu_select") EXCEPT !.email = e, !.password = pw ])
    \/ \E e \in emails, pw \in Passwords :
         Begin(p, [ Call("loginUser", "lu_select") EXCEPT
                      !.email = e, !.password = pw,
                      !.opening = LoginOpening(p, e, pw) ])
    \/ \E e \in emails :
         Begin(p, [ Call("sendResetCode", "sr_user") EXCEPT !.email = e ])
    \/ \E e \in emails, c \in codes, pw \in Passwords :
         Begin(p, [ Call("resetPassword", "rp_user") EXCEPT
                      !.email = e, !.code = c, !.password = pw,
                      !.opening = Opening(p, "resetPassword", e, c, NoToken) ])
    \/ \E e \in emails :
         Begin(p, [ Call("sendVerificationCode", "sv_user") EXCEPT !.email = e ])
    \/ \E e \in emails, c \in codes :
         Begin(p, [ Call("verifyEmail", "ve_user") EXCEPT
                      !.email = e, !.code = c,
                      !.opening = Opening(p, "verifyEmail", e, c, NoToken) ])
    \/ \E t \in NoToken..MaxTokens :
         Begin(p, [ Call("confirmAccountByToken", "ca_select") EXCEPT
                      !.token = t,
                      !.opening = Opening(p, "confirmAccountByToken", NoEmail, NoCode, t) ])
    \/ \E e \in emails :
         /\ nextToken + PendingTokens <= MaxTokens
         /\ Begin(p, [ Call("resendConfirmationEmail", "rc_user") EXCEPT !.email = e ])
    \/ \E id \in ids :
         Begin(p, [ Call("deleteUser", "du_select") EXCEPT !.userId = id ])
    \/ \E id \in ids, e \in Emails \cup { NoEmail },
          pw \in Passwords \cup { NoPassword } :
         Begin(p, [ Call("updateUser", "uu_select") EXCEPT
                      !.userId = id, !.newEmail = e, !.password = pw ])

Step(p) ==
    \/ createUser(p)
    \/ generateAndSendConfirmationToken(p)
    \/ resendConfirmationEmail(p)
    \/ confirmAccountByToken(p)
    \/ loginUser(p)
    \/ sendResetCode(p)
    \/ resetPassword(p)
    \/ sendVerificationCode(p)
    \/ verifyEmail(p)
    \/ deleteUser(p)
    \/ updateUser(p)

\* Requests arrive one at a time: a request begins when no other is in
\* flight, and one process serves them all.
Next ==
    \/ Tick
    \/ ncalls < MaxCalls /\ Quiet /\ Request(SeqProc, Emails, CodeInputs, UserIds)
    \/ Step(SeqProc)

Spec == Init /\ [][Next]_vars

\* Requests overlap: the statements of two requests interleave.  The
\* behaviours start in the state Spec is in when createUser("a@x.com",
\* "Passw0rd!") has returned: the account exists and its confirmation token
\* is stored.  Between the statements the clock jumps past the expiry of
\* whatever is stored (the boundary instants are Spec's).
InitConc ==
    /\ users = { [ userId |-> 1, email |-> "a@x.com",
                   password |-> hashPassword("Passw0rd!"),
                   verified |-> DefaultVerified ] }
    /\ resetCodes = {}
    /\ verificationCodes = {}
    /\ confirmationTokens = { [ email |-> "a@x.com", token |-> 1 ] }
    /\ now = 0
    /\ ticks = 0
    /\ nextUserId = 2
    /\ nextToken = 2
    /\ ncalls = 0
    /\ calls = [ p \in Procs |-> NoCall ]
    /\ consumed = {}
    /\ resetIssues = [ e \in Emails |-> << >> ]
    /\ tokenIssues = [ e \in Emails |-> IF e = "a@x.com" THEN << 1 >> ELSE << >> ]

NextConc ==
    \/ Tick /\ now' = now + TTL + 1
    \/ \E p \in Procs : ncalls < MaxCallsConc /\ Request(p, ConcEmails, ConcCodes, ConcIds)
    \/ \E p \in Procs : Step(p)

SpecConc == InitConc /\ [][NextConc]_vars

\* The state after createUser("a@x.com", "Passw0rd!") and a sendResetCode
\* for that email at time 0 which drew the code 100000.
InitReuse ==
    /\ users = { [ userId |-> 1, email |-> "a@x.com",
                   password |-> hashPassword("Passw0rd!"),
                   verified |-> DefaultVerified ] }
    /\ resetCodes = { [ email |-> "a@x.com", code |-> IntToString(RandomIntMin),
                        expiresAt |-> TTL ] }
    /\ verificationCodes = {}
    /\ confirmationTokens = { [ email |-> "a@x.com", token |-> 1 ] }
    /\ now = 0
    /\ ticks = 0
    /\ nextUserId = 2
    /\ nextToken = 2
    /\ ncalls = 0
    /\ calls = [ p \in Procs |-> NoCall ]
    /\ consumed = {}
    /\ resetIssues = [ e \in Emails |->
                         IF e = "a@x.com" THEN << IntToString(RandomIntMin) >>
                         ELSE << >> ]
    /\ tokenIssues = [ e \in Emails |-> IF e = "a@x.com" THEN << 1 >> ELSE << >> ]

\* Sequential requests that follow the issue of a reset code.
NextReuse ==
    \/ Tick
    \/ ncalls < MaxCallsReuse /\ Quiet /\ Request(SeqProc, Emails, CodeInputs, UserIds)
    \/ Step(SeqProc)

SpecReuse == InitReuse /\ [][NextReuse]_vars

\* The database rejects the UPDATE of the users row in resetPassword: the
\* awaited statement throws, the error leaves the handler untyped, and the
\* DELETE of the reset code that follows it is never reached.
updateRejected(p) ==
    /\ At(p, "resetPassword", "rp_update")
    /\ Return(p, "DB_ERROR")
    /\ UNCHANGED << tables, clock, uuids, ncalls, history >>

\* Sequential requests against a database that may reject the password
\* update.
NextFault ==
    \/ Tick
    \/ ncalls < MaxCalls /\ Quiet /\ Request(SeqProc, Emails, CodeInputs, UserIds)
    \/ Step(SeqProc)
    \/ updateRejected(SeqProc)

SpecFault == Init /\ [][NextFault]_vars

\* The requests that only read an account.
Lookup(p) ==
    \/ \E id \in 1..MaxUsers :
         Begin(p, [ Call("getUserById", "gi_select") EXCEPT !.userId = id ])
    \/ \E e \in Emails :
         Begin(p, [ Call("getUserByEmail", "ge_select") EXCEPT !.email = e ])

\* Sequential requests, the two getters among them.
NextRead ==
    \/ Tick
    \/ ncalls < MaxCalls /\ Quiet /\ Request(SeqProc, Emails, CodeInputs, UserIds)
    \/ ncalls < MaxCalls /\ Quiet /\ Lookup(SeqProc)
    \/ Step(SeqProc)
    \/ getUserById(SeqProc)
    \/ getUserByEmail(SeqProc)

SpecRead == Init /\ [][NextRead]_vars

\* The strings safeStringCompare is applied to: codes as the service
\* generates them and as a client may submit them, the digests loginUser
\* compares, and hex strings that are not digests.
CompareInputs ==
    generateResetCode \cup CodeInputs
    \cup { hashPassword(pw) : pw \in Passwords }
    \cup { << "a", "b" >>, << "A", "B" >>, << "a", "b", "c" >>, << "z", "z" >>,
           << "0", "g" >>, << >> }

\* One call of safeStringCompare(str1, str2, encoding); the process keeps the
\* arguments and the value returned.
Compare(p) ==
    /\ \E str1 \in CompareInputs, str2 \in CompareInputs, encoding \in { "utf8", "hex" } :
         calls' = [ calls EXCEPT ![p] =
                      [ Call("safeStringCompare", "done") EXCEPT
                          !.code = str1, !.genCode = str2, !.note = encoding,
                          !.result = IF safeStringCompare(str1, str2, encoding)
                                     THEN "true" ELSE "false" ] ]
    /\ UNCHANGED << tables, clock, uuids, ncalls, history >>

NextCompare == Compare(SeqProc)

SpecCompare == Init /\ [][NextCompare]_vars

\* The status table of handleServiceError, by error code.
errorCodeToStatus ==
    [ code \in { "VALIDATION_FAILED", "INVALID_EMAIL", "INVALID_PASSWORD",
                 "MISSING_REQUIRED_FIELD", "INVALID_CREDENTIALS",
                 "MISSING_AUTHORIZATION", "INVALID_TOKEN", "USER_NOT_FOUND",
                 "USER_ALREADY_EXISTS", "EMAIL_ALREADY_IN_USE",
                 "RESET_CODE_NOT_FOUND", "INVALID_RESET_CODE",
                 "RESET_CODE_EXPIRED", "ORDER_NOT_FOUND",
                 "INTERNAL_SERVER_ERROR", "RESOURCE_NOT_FOUND" } |->
        CASE code \in { "VALIDATION_FAILED", "INVALID_EMAIL", "INVALID_PASSWORD",
                        "MISSING_REQUIRED_FIELD", "INVALID_RESET_CODE",
                        "RESET_CODE_EXPIRED" } -> 400
          [] code \in { "INVALID_CREDENTIALS", "MISSING_AUTHORIZATION",
                        "INVALID_TOKEN" } -> 401
          [] code \in { "USER_NOT_FOUND", "RESET_CODE_NOT_FOUND", "ORDER_NOT_FOUND",
                        "RESOURCE_NOT_FOUND" } -> 404
          [] code \in { "USER_ALREADY_EXISTS", "EMAIL_ALREADY_IN_USE" } -> 409
          [] code = "INTERNAL_SERVER_ERROR" -> 500 ]

\* The error codes the service throws as ServiceError; anything else a
\* handler ends with is an error of the database driver.
ServiceErrors ==
    { "USER_ALREADY_EXISTS", "INTERNAL_SERVER_ERROR", "INVALID_CREDENTIALS",
      "USER_NOT_FOUND", "EMAIL_ALREADY_IN_USE", "RESET_CODE_NOT_FOUND",
      "INVALID_RESET_CODE", "RESET_CODE_EXPIRED", "INVALID_CODE_FORMAT",
      "VERIFICATION_CODE_NOT_FOUND", "INVALID_VERIFICATION_CODE",
      "VERIFICATION_CODE_EXPIRED", "CONFIRMATION_TOKEN_NOT_FOUND" }

\* handleServiceError followed by the error middleware: the HTTP status the
\* route answers with when the service call ended with the given error.  A
\* ServiceError gets its table entry, or 500 when the table has none; any
\* other error is thrown on as it is and the middleware answers 500.
handleServiceError(error) ==
    IF error \in ServiceErrors
    THEN IF error \in DOMAIN errorCodeToStatus THEN errorCodeToStatus[error] ELSE 500
    ELSE 500

\* ----------------------------------------------------------------- claims
\* The step is the one process p takes from position pc of operation op.
Takes(p, op, pc) == At(p, op, pc) /\ calls'[p].pc # pc

ConfirmReturns(p) ==
    /\ calls[p].op = "confirmAccountByToken"
    /\ ~ Idle(p)
    /\ calls'[p].pc = "done"

\* C1: a confirmation token is single-use.  A confirmAccountByToken(t) begun
\* after a confirmAccountByToken(t) succeeded fails with
\* CONFIRMATION_TOKEN_NOT_FOUND, and when a confirmation succeeds no
\* confirmation record of the token's email is left.
C1_ConfirmationTokenSingleUse ==
    [][ \A p \in Procs :
          /\ (ConfirmReturns(p) /\ calls[p].opening = "replay")
                => calls'[p].result = "CONFIRMATION_TOKEN_NOT_FOUND"
          /\ (ConfirmReturns(p) /\ calls'[p].result = "OK")
                => ByEmail(confirmationTokens', calls[p].rowEmail) = {} ]_vars

C1_Witness ==
    \E p \in Procs :
        /\ calls[p].pc = "done" /\ calls[p].op = "confirmAccountByToken"
        /\ calls[p].opening = "replay"
        /\ calls[p].result = "CONFIRMATION_TOKEN_NOT_FOUND"

\* C2: after a successful confirmAccountByToken(token) the account that owns
\* the token has verified = true.
C2_ConfirmSetsVerified ==
    [][ \A p \in Procs :
          (ConfirmReturns(p) /\ calls'[p].result = "OK")
             => \A u \in users' : u.email = calls[p].rowEmail => u.verified ]_vars

\* C3: a login with the correct email and password is rejected with
\* ACCOUNT_NOT_VERIFIED while the account is unconfirmed and succeeds once it
\* is confirmed.
C3_LoginRequiresVerified ==
    [][ \A p \in Procs :
          Takes(p, "loginUser", "lu_select")
             => \A u \in users :
                  (u.email = calls[p].email
                     /\ u.password = hashPassword(calls[p].password))
                  => calls'[p].result = IF u.verified THEN "OK"
                                        ELSE "ACCOUNT_NOT_VERIFIED" ]_vars

SendResetCodeReturns(p) ==
    /\ calls[p].op = "sendResetCode"
    /\ ~ Idle(p)
    /\ calls'[p].pc = "done"

\* C4: a sendResetCode for an account that is not confirmed is rejected with
\* ACCOUNT_NOT_VERIFIED and stores no reset code; for a confirmed account it
\* succeeds.
C4_ResetRequestRequiresVerified ==
    [][ \A p \in Procs :
          /\ Takes(p, "sendResetCode", "sr_user")
                => \A u \in users :
                     (u.email = calls[p].email /\ ~ u.verified)
                     => /\ calls'[p].result = "ACCOUNT_NOT_VERIFIED"
                        /\ resetCodes' = resetCodes
          /\ SendResetCodeReturns(p)
                => \A u \in users :
                     (u.email = calls[p].email /\ u.verified)
                     => calls'[p].result = "OK" ]_vars

\* C5: replace-on-reissue.  Once a second reset code is stored for an email,
\* resetPassword with a code issued earlier (and different from the stored
\* one) fails with INVALID_RESET_CODE and changes neither the password nor
\* the stored code; resetPassword with the stored code, within its TTL, is
\* accepted, sets the password and returns success.
C5_ReplaceOnReissue ==
    [][ \A p \in Procs :
          LET e == calls[p].email
              issues == resetIssues[e]
          IN  /\ (Takes(p, "resetPassword", "rp_select") /\ Len(issues) >= 2)
                    => \A row \in ByEmail(resetCodes, e) :
                         /\ (/\ calls[p].code # row.code
                             /\ \E i \in 1..(Len(issues) - 1) : issues[i] = calls[p].code)
                               => /\ calls'[p].result = "INVALID_RESET_CODE"
                                  /\ users' = users
                                  /\ resetCodes' = resetCodes
                         /\ (calls[p].code = row.code /\ now <= row.expiresAt)
                               => calls'[p].pc = "rp_update"
              /\ (Takes(p, "resetPassword", "rp_update") /\ calls[p].seen >= 2)
                    => /\ calls'[p].pc = "rp_delete"
                       /\ \A u \in users' :
                            u.email = e => u.password = hashPassword(calls[p].password)
              /\ (Takes(p, "resetPassword", "rp_delete") /\ calls[p].seen >= 2)
                    => calls'[p].result = "OK" ]_vars

C5_Witness ==
    \E p \in Procs :
        /\ calls[p].pc = "done" /\ calls[p].op = "resetPassword"
        /\ calls[p].note = "stale" /\ calls[p].seen >= 2
        /\ calls[p].result = "INVALID_RESET_CODE"

\* C6: in every reachable state, under any interleaving of the requests,
\* each email has at most one reset-code record, at most one
\* verification-code record and at most one confirmation-token record.
C6_AtMostOneSecretPerEmail ==
    \A e \in Emails :
        /\ Cardinality(ByEmail(resetCodes, e)) <= 1
        /\ Cardinality(ByEmail(verificationCodes, e)) <= 1
        /\ Cardinality(ByEmail(confirmationTokens, e)) <= 1

C6_Witness ==
    \E p \in Procs :
        /\ calls[p].pc = "done" /\ calls[p].op = "sendResetCode"
        /\ calls[p].overlap /\ calls[p].result = "DB_ERROR"
        /\ Cardinality(ByEmail(resetCodes, calls[p].email)) = 1

BothIssued(p, q) ==
    /\ p # q
    /\ calls[p].pc = "done" /\ calls[p].op = "sendResetCode" /\ calls[p].result = "OK"
    /\ calls[q].pc = "done" /\ calls[q].op = "sendResetCode" /\ calls[q].result = "OK"
    /\ calls[p].email = calls[q].email

\* C7: when two sendResetCode calls for the same email have both reported
\* success, exactly one reset code is stored for the email and it is the
\* code of one of the two calls (so never two live codes).
C7_ConcurrentIssueLeavesOneCode ==
    \A p, q \in Procs :
        BothIssued(p, q)
           => \E row \in resetCodes :
                /\ ByEmail(resetCodes, calls[p].email) = { row }
                /\ row.code \in { calls[p].genCode, calls[q].genCode }

C7_Witness ==
    \E p, q \in Procs :
        /\ BothIssued(p, q)
        /\ calls[p].overlap /\ calls[q].overlap
        /\ calls[p].genCode # calls[q].genCode

\* A finished resetPassword that read the stored code, matching and not yet
\* expired.
Validated(p) ==
    /\ calls[p].pc = "done" /\ calls[p].op = "resetPassword"
    /\ calls[p].note \in { "before", "at" }

\* C8: single-use under concurrency.  Of the resetPassword calls that
\* presented the same issued, unexpired reset code, exactly one succeeds and
\* the others fail with RESET_CODE_NOT_FOUND.
C8_ResetCodeSingleUse ==
    \A p, q \in Procs :
        (/\ p # q /\ Validated(p) /\ Validated(q)
         /\ calls[p].email = calls[q].email /\ calls[p].seen = calls[q].seen
         /\ calls[p].result = "OK")
        => calls[q].result = "RESET_CODE_NOT_FOUND"

\* C9: when two resetPassword calls run with the same valid code, the stored
\* password hash is the one written by the update that committed first: a
\* later update for the same issued code does not change it.
C9_FirstCommittedPasswordStays ==
    [][ \A p, q \in Procs :
          (/\ p # q /\ Takes(p, "resetPassword", "rp_update")
           /\ calls[q].op = "resetPassword" /\ calls[q].pc \in { "rp_delete", "done" }
           /\ calls[q].note \in { "before", "at" }
           /\ calls[q].email = calls[p].email /\ calls[q].seen = calls[p].seen)
          => users' = users ]_vars

ExpiredError(op) ==
    IF op = "resetPassword" THEN "RESET_CODE_EXPIRED" ELSE "VERIFICATION_CODE_EXPIRED"
NotFoundError(op) ==
    IF op = "resetPassword" THEN "RESET_CODE_NOT_FOUND" ELSE "VERIFICATION_CODE_NOT_FOUND"

\* C10: expiry boundary of reset and verification codes.  A correct code
\* read before expiresAt is accepted; a correct code read after expiresAt
\* fails with the *_EXPIRED error and that call deletes the record; the same
\* request made again fails with *_NOT_FOUND.
C10_ExpiryBoundary ==
    [][ \A p \in Procs :
          (/\ calls[p].op \in { "resetPassword", "verifyEmail" }
           /\ ~ Idle(p)
           /\ calls'[p].pc = "done")
          => /\ calls'[p].note = "before" => calls'[p].result = "OK"
             /\ calls'[p].note = "after"
                   => /\ calls'[p].result = ExpiredError(calls[p].op)
                      /\ IF calls[p].op = "resetPassword"
                         THEN ByEmail(resetCodes', calls[p].email) = {}
                         ELSE ByEmail(verificationCodes', calls[p].email) = {}
             /\ calls[p].opening = "after-expired"
                   => calls'[p].result = NotFoundError(calls[p].op) ]_vars

C10_Witness ==
    \E p \in Procs :
        /\ calls[p].pc = "done" /\ calls[p].op = "resetPassword"
        /\ calls[p].opening = "after-expired"
        /\ calls[p].result = "RESET_CODE_NOT_FOUND"

\* C11: a resetPassword or verifyEmail with a code that differs from the
\* stored one fails with INVALID_RESET_CODE / INVALID_VERIFICATION_CODE and
\* leaves the stored secret (and the account) unchanged; the attempt with the
\* correct code that follows wrong attempts, within the TTL, succeeds.
C11_WrongCodeKeepsSecret ==
    [][ \A p \in Procs :
          /\ Takes(p, "resetPassword", "rp_select")
                => \A row \in ByEmail(resetCodes, calls[p].email) :
                     row.code # calls[p].code
                     => /\ calls'[p].result = "INVALID_RESET_CODE"
                        /\ resetCodes' = resetCodes
                        /\ users' = users
          /\ Takes(p, "verifyEmail", "ve_select")
                => \A row \in ByEmail(verificationCodes, calls[p].email) :
                     row.code # calls[p].code
                     => /\ calls'[p].result = "INVALID_VERIFICATION_CODE"
                        /\ verificationCodes' = verificationCodes
                        /\ users' = users
          /\ (/\ calls[p].op \in { "resetPassword", "verifyEmail" }
              /\ ~ Idle(p)
              /\ calls'[p].pc = "done"
              /\ calls[p].opening = "after-wrong"
              /\ calls'[p].note \in { "before", "at" })
                => calls'[p].result = "OK" ]_vars

C11_Witness ==
    \E p \in Procs :
        /\ calls[p].pc = "done" /\ calls[p].op = "resetPassword"
        /\ calls[p].opening = "after-wrong"
        /\ calls[p].result = "OK"

\* The stored record the request of p finds is past its expiresAt.
FindsExpired(p, table) ==
    \E row \in ByEmail(table, calls[p].email) : Expired(now, row.expiresAt)

\* C12 (as stated): a resetPassword or verifyEmail lookup that finds a
\* record whose expiresAt has passed deletes the record and reports the
\* secret as not found, whatever code was submitted.
C12_ExpiredReportedNotFound ==
    [][ \A p \in Procs :
          /\ (/\ \/ Takes(p, "resetPassword", "rp_select") /\ FindsExpired(p, resetCodes)
                 \/ Takes(p, "resetPassword", "rp_purge")
              /\ calls'[p].pc = "done")
                => /\ calls'[p].result = "RESET_CODE_NOT_FOUND"
                   /\ ByEmail(resetCodes', calls[p].email) = {}
          /\ (/\ \/ Takes(p, "verifyEmail", "ve_select")
                      /\ FindsExpired(p, verificationCodes)
                 \/ Takes(p, "verifyEmail", "ve_purge")
              /\ calls'[p].pc = "done")
                => /\ calls'[p].result = "VERIFICATION_CODE_NOT_FOUND"
                   /\ ByEmail(verificationCodes', calls[p].email) = {} ]_vars

\* C12 (amended): a lookup that finds a record past its expiresAt deletes it
\* only when the submitted code is the stored one, and then reports
\* *_EXPIRED; with any other code it reports INVALID_* and the expired
\* record stays stored.
C12_ExpiredMatchPurged ==
    [][ \A p \in Procs :
          /\ (Takes(p, "resetPassword", "rp_select") /\ FindsExpired(p, resetCodes))
                => \A row \in ByEmail(resetCodes, calls[p].email) :
                     /\ resetCodes' = resetCodes
                     /\ IF row.code = calls[p].code
                        THEN calls'[p].pc = "rp_purge"
                        ELSE calls'[p].result = "INVALID_RESET_CODE"
          /\ Takes(p, "resetPassword", "rp_purge")
                => /\ calls'[p].result = "RESET_CODE_EXPIRED"
                   /\ ByEmail(resetCodes', calls[p].email) = {}
          /\ (Takes(p, "verifyEmail", "ve_select") /\ FindsExpired(p, verificationCodes))
                => \A row \in ByEmail(verificationCodes, calls[p].email) :
                     /\ verificationCodes' = verificationCodes
                     /\ IF row.code = calls[p].code
                        THEN calls'[p].pc = "ve_purge"
                        ELSE calls'[p].result = "INVALID_VERIFICATION_CODE"
          /\ Takes(p, "verifyEmail", "ve_purge")
                => /\ calls'[p].result = "VERIFICATION_CODE_EXPIRED"
                   /\ ByEmail(verificationCodes', calls[p].email) = {} ]_vars

C12_Witness ==
    \E p \in Procs :
        /\ calls[p].pc = "done" /\ calls[p].op = "verifyEmail"
        /\ calls[p].note = "after"
        /\ calls[p].result = "VERIFICATION_CODE_EXPIRED"
        /\ ByEmail(verificationCodes, calls[p].email) = {}

\* C13: in resetPassword the code is compared before the expiry is tested:
\* against a stored record past its expiresAt a code that differs from the
\* stored one yields INVALID_RESET_CODE, never RESET_CODE_EXPIRED, and the
\* stored code yields RESET_CODE_EXPIRED.
C13_MatchBeforeExpiry ==
    [][ \A p \in Procs :
          (/\ calls[p].op = "resetPassword"
           /\ calls[p].pc \in { "rp_select", "rp_purge" }
           /\ calls'[p].pc = "done"
           /\ FindsExpired(p, resetCodes))
          => \A row \in ByEmail(resetCodes, calls[p].email) :
               calls'[p].result = IF row.code = calls[p].code
                                  THEN "RESET_CODE_EXPIRED"
                                  ELSE "INVALID_RESET_CODE" ]_vars

C13_Witness ==
    \E p \in Procs :
        /\ calls[p].pc = "done" /\ calls[p].op = "resetPassword"
        /\ calls[p].result = "INVALID_RESET_CODE"
        /\ FindsExpired(p, resetCodes)

\* C14: loginUser fails with the same error kind, INVALID_CREDENTIALS, for
\* an email that has no account and for an account whose password is not the
\* submitted one; nothing else of the failed call is returned.
C14_LoginFailuresAlike ==
    [][ \A p \in Procs :
          Takes(p, "loginUser", "lu_select")
             => /\ ByEmail(users, calls[p].email) = {}
                      => calls'[p].result = "INVALID_CREDENTIALS"
                /\ \A u \in ByEmail(users, calls[p].email) :
                      u.password # hashPassword(calls[p].password)
                      => calls'[p].result = "INVALID_CREDENTIALS"
                /\ UNCHANGED << tables, history >> ]_vars

C14_Witness ==
    \E p \in Procs :
        /\ calls[p].pc = "done" /\ calls[p].op = "loginUser"
        /\ calls[p].result = "INVALID_CREDENTIALS"
        /\ ByEmail(users, calls[p].email) # {}

\* C15: a createUser with an email that belongs to an account fails with
\* USER_ALREADY_EXISTS and adds no account, also when the account was
\* inserted by a concurrent createUser after this call looked the email up.
C15_DuplicateRegistrationTyped ==
    [][ \A p \in Procs :
          (/\ \/ Takes(p, "createUser", "cu_select")
              \/ Takes(p, "createUser", "cu_insert")
           /\ ByEmail(users, calls[p].email) # {})
          => /\ calls'[p].result = "USER_ALREADY_EXISTS"
             /\ users' = users ]_vars

UniqueEmails == \A u, v \in users : u.email = v.email => u = v

C17_DeleteUserCascades ==
    [][ \A p \in Procs :
          (/\ calls[p].op = "deleteUser"
           /\ ~ Idle(p)
           /\ calls'[p].pc = "done"
           /\ calls'[p].result = "OK")
          => /\ ByEmail(resetCodes', calls[p].rowEmail) = {}
             /\ ByEmail(verificationCodes', calls[p].rowEmail) = {}
             /\ ByEmail(confirmationTokens', calls[p].rowEmail) = {} ]_vars

\* C18: when createUser(email, password) succeeds there is exactly one
\* account with the email and exactly one confirmation token record of the
\* email, holding the token the call generated.
C18_CreateUserIssuesOneToken ==
    [][ \A p \in Procs :
          (/\ calls[p].op = "createUser"
           /\ ~ Idle(p)
           /\ calls'[p].pc = "done"
           /\ calls'[p].result = "OK")
          => /\ Cardinality(ByEmail(users', calls[p].email)) = 1
             /\ ByEmail(confirmationTokens', calls[p].email)
                   = { [ email |-> calls[p].email, token |-> calls[p].genToken ] } ]_vars

C18_Witness ==
    \E p \in Procs :
        /\ calls[p].pc = "done" /\ calls[p].op = "createUser"
        /\ calls[p].result = "OK"
        /\ Len(tokenIssues[calls[p].email]) >= 2
        /\ Cardinality(ByEmail(users, calls[p].email)) = 1
        /\ Cardinality(ByEmail(confirmationTokens, calls[p].email)) = 1

\* C19: resendConfirmationEmail(email) for an existing account replaces the
\* confirmation token: the token it generates differs from every stored
\* token, when it succeeds the email's only record holds that token, and a
\* confirmAccountByToken with a token that was replaced fails with
\* CONFIRMATION_TOKEN_NOT_FOUND.
C19_ResendReplacesToken ==
    [][ \A p \in Procs :
          /\ (/\ Takes(p, "resendConfirmationEmail", "rc_user")
              /\ ByEmail(users, calls[p].email) # {})
                => \A row \in confirmationTokens : calls'[p].genToken # row.token
          /\ (/\ calls[p].op = "resendConfirmationEmail"
              /\ ~ Idle(p)
              /\ calls'[p].pc = "done"
              /\ calls'[p].result = "OK")
                => ByEmail(confirmationTokens', calls[p].email)
                      = { [ email |-> calls[p].email, token |-> calls[p].genToken ] }
          /\ (ConfirmReturns(p) /\ calls[p].opening = "replaced")
                => calls'[p].result = "CONFIRMATION_TOKEN_NOT_FOUND" ]_vars

C19_Witness ==
    \E p \in Procs :
        /\ calls[p].pc = "done" /\ calls[p].op = "confirmAccountByToken"
        /\ calls[p].opening = "replaced"
        /\ calls[p].result = "CONFIRMATION_TOKEN_NOT_FOUND"
        /\ nextUserId = 2
        /\ \E row \in confirmationTokens : row.token = 2

\* C20: when the mail transport rejects the message, the issuing operation
\* (createUser, resendConfirmationEmail, sendResetCode, sendVerificationCode)
\* still returns success, and the secret it issued is stored as it was
\* before the notifier was called.
C20_NotifierFailureIsNotFatal ==
    [][ \A p \in Procs :
          (/\ calls[p].pc \in { "gt_send", "sr_send", "sv_send" }
           /\ calls'[p].pc = "done"
           /\ calls'[p].note = "rejected")
          => /\ calls'[p].result = "OK"
             /\ UNCHANGED tables
             /\ calls[p].pc = "gt_send"
                   => [ email |-> calls[p].email, token |-> calls[p].genToken ]
                         \in confirmationTokens'
             /\ calls[p].pc = "sr_send"
                   => [ email |-> calls[p].email, code |-> calls[p].genCode,
                        expiresAt |-> calls[p].expiresAt ] \in resetCodes'
             /\ calls[p].pc = "sv_send"
                   => [ email |-> calls[p].email, code |-> calls[p].genCode,
                        expiresAt |-> calls[p].expiresAt ] \in verificationCodes' ]_vars

C20_Witness ==
    \E p \in Procs :
        /\ calls[p].pc = "done" /\ calls[p].op = "sendResetCode"
        /\ calls[p].note = "rejected"
        /\ calls[p].result = "OK"
        /\ [ email |-> calls[p].email, code |-> calls[p].genCode,
             expiresAt |-> calls[p].expiresAt ] \in resetCodes

\* The codes of CodeInputs that are not six decimal digits, spelled out
\* independently of the service's own format check.
NotSixDecimalDigits(code) ==
    \/ Len(code) # 6
    \/ \E i \in 1..Len(code) :
         code[i] \notin { "0", "1", "2", "3", "4", "5", "6", "7", "8", "9" }

\* C21: verifyEmail with a code that is not exactly six decimal digits fails
\* with INVALID_CODE_FORMAT in its first step, leaving every table as it was,
\* whether or not the account or a verification code for the email exists.
C21_MalformedCodeRejectedFirst ==
    [][ \A p \in Procs :
          ( Takes(p, "verifyEmail", "ve_user")
            /\ NotSixDecimalDigits(calls[p].code) )
          => /\ calls'[p].pc = "done"
             /\ calls'[p].result = "INVALID_CODE_FORMAT"
             /\ tables' = tables ]_vars

\* A malformed code was rejected while the account and a live verification
\* code for the email both existed.
C21_Witness ==
    \E p \in Procs :
      /\ calls[p].op = "verifyEmail"
      /\ calls[p].pc = "done"
      /\ calls[p].result = "INVALID_CODE_FORMAT"
      /\ NotSixDecimalDigits(calls[p].code)
      /\ ByEmail(users, calls[p].email) # {}
      /\ ByEmail(verificationCodes, calls[p].email) # {}

\* C22: a successful verifyEmail consumes the verification code and leaves
\* the account of that email marked verified.
C22_VerifyEmailSetsVerified ==
    [][ \A p \in Procs :
          ( Takes(p, "verifyEmail", "ve_delete")
            /\ calls'[p].pc = "done"
            /\ calls'[p].result = "OK" )
          => /\ ByEmail(verificationCodes', calls[p].email) = {}
             /\ \A u \in ByEmail(users', calls[p].email) : u.verified ]_vars

\* C23: a resetPassword or verifyEmail that has validated the stored secret
\* (it matched and had not expired) leaves no secret for the email when it
\* ends, whether the side effect that follows the validation succeeded or
\* failed.
C23_ValidatedSecretDeleted ==
    [][ \A p \in Procs :
          /\ ( calls[p].op = "resetPassword"
               /\ calls[p].pc \in { "rp_update", "rp_delete" }
               /\ calls'[p].pc = "done" )
             => ByEmail(resetCodes', calls[p].email) = {}
          /\ ( Takes(p, "verifyEmail", "ve_delete") /\ calls'[p].pc = "done" )
             => ByEmail(verificationCodes', calls[p].email) = {} ]_vars

\* C24: when resetPassword has succeeded no reset code remains for the
\* email, a loginUser that follows with the new password succeeds, and one
\* that follows with any other password, the previous one included, fails
\* with INVALID_CREDENTIALS.
C24_ResetThenLogin ==
    [][ \A p \in Procs :
          /\ ( Takes(p, "resetPassword", "rp_delete")
               /\ calls'[p].pc = "done" /\ calls'[p].result = "OK" )
             => ByEmail(resetCodes', calls[p].email) = {}
          /\ ( Takes(p, "loginUser", "lu_select")
               /\ calls[p].opening = "after-reset-new" )
             => calls'[p].result = "OK"
          /\ ( Takes(p, "loginUser", "lu_select")
               /\ calls[p].opening = "after-reset-other" )
             => calls'[p].result = "INVALID_CREDENTIALS" ]_vars

\* After a successful reset, a login with a password other than the new one
\* was refused while the account existed.
C24_Witness ==
    \E p \in Procs :
      /\ calls[p].op = "loginUser"
      /\ calls[p].pc = "done"
      /\ calls[p].opening = "after-reset-other"
      /\ calls[p].result = "INVALID_CREDENTIALS"
      /\ ByEmail(users, calls[p].email) # {}

\* A step of an operation of process p that is in flight.
StepOf(p, ops) ==
    /\ calls[p].op \in ops
    /\ ~ Idle(p)
    /\ calls'[p].pc # calls[p].pc

\* C25: every step of sendResetCode and resetPassword, whether it issues a
\* reset code, fails to consume one or consumes it, leaves the verification
\* codes and the confirmation tokens as they were; every step of
\* sendVerificationCode and verifyEmail leaves the reset codes and the
\* confirmation tokens as they were.
C25_SecretNamespacesIndependent ==
    [][ \A p \in Procs :
          /\ StepOf(p, { "sendResetCode", "resetPassword" })
             => /\ verificationCodes' = verificationCodes
                /\ confirmationTokens' = confirmationTokens
          /\ StepOf(p, { "sendVerificationCode", "verifyEmail" })
             => /\ resetCodes' = resetCodes
                /\ confirmationTokens' = confirmationTokens ]_vars

\* A verification code was consumed while a reset code and a confirmation
\* token of the same email were stored, and both are still there.
C25_Witness ==
    \E p \in Procs :
      /\ calls[p].op = "verifyEmail"
      /\ calls[p].pc = "done"
      /\ calls[p].result = "OK"
      /\ ByEmail(resetCodes, calls[p].email) # {}
      /\ ByEmail(confirmationTokens, calls[p].email) # {}

\* The first position of the operations that issue a secret on request.
FirstPc(op) ==
    CASE op = "sendResetCode" -> "sr_user"
      [] op = "sendVerificationCode" -> "sv_user"
      [] op = "resendConfirmationEmail" -> "rc_user"

\* C26: sendResetCode, sendVerificationCode and resendConfirmationEmail for
\* an email that no account has fail with USER_NOT_FOUND in their first step
\* and leave every table, the three secret tables included, as it was.
C26_IssueNeedsAccount ==
    [][ \A p \in Procs :
          \A op \in { "sendResetCode", "sendVerificationCode",
                      "resendConfirmationEmail" } :
            ( Takes(p, op, FirstPc(op))
              /\ ~ \E u \in users : u.email = calls[p].email )
            => /\ calls'[p].pc = "done"
               /\ calls'[p].result = "USER_NOT_FOUND"
               /\ tables' = tables ]_vars

\* A reset code was requested for an email without an account while another
\* account existed, and no secret of that email is stored.
C26_Witness ==
    \E p \in Procs :
      /\ calls[p].op = "sendResetCode"
      /\ calls[p].pc = "done"
      /\ calls[p].result = "USER_NOT_FOUND"
      /\ users # {}
      /\ ~ \E u \in users : u.email = calls[p].email
      /\ \A table \in { resetCodes, verificationCodes, confirmationTokens } :
           ~ \E row \in table : row.email = calls[p].email

\* The statuses the API documents for the service's error codes.
DocumentedStatus ==
    [ code \in { "CONFIRMATION_TOKEN_NOT_FOUND", "USER_NOT_FOUND",
                 "INVALID_CREDENTIALS", "USER_ALREADY_EXISTS",
                 "INVALID_RESET_CODE", "RESET_CODE_EXPIRED" } |->
        CASE code \in { "CONFIRMATION_TOKEN_NOT_FOUND", "USER_NOT_FOUND" } -> 404
          [] code = "INVALID_CREDENTIALS" -> 401
          [] code = "USER_ALREADY_EXISTS" -> 409
          [] code \in { "INVALID_RESET_CODE", "RESET_CODE_EXPIRED" } -> 400 ]

\* C27: a request that ended with a service error code is answered with the
\* status documented for that code, and no service error code is answered
\* with 500.
C27_ErrorsHaveDocumentedStatus ==
    \A p \in Procs :
      ( calls[p].pc = "done" /\ calls[p].result \in ServiceErrors )
      => /\ calls[p].result \in DOMAIN DocumentedStatus
            => handleServiceError(calls[p].result) = DocumentedStatus[calls[p].result]
         /\ calls[p].result # "INTERNAL_SERVER_ERROR"
            => handleServiceError(calls[p].result) # 500

\* The operations that return a user.
ReturnsUser ==
    { "createUser", "getUserById", "getUserByEmail", "loginUser", "updateUser" }

\* C28: the value createUser, getUserById, getUserByEmail, loginUser and
\* updateUser return has no password field.
C28_ReturnedUserHasNoPassword ==
    \A p \in Procs :
      ( calls[p].pc = "done" /\ calls[p].op \in ReturnsUser )
      => "password" \notin DOMAIN calls[p].returned

\* A getter has returned the account of a stored row that carries a
\* password hash.
C28_Witness ==
    \E p \in Procs :
      /\ calls[p].pc = "done"
      /\ calls[p].op = "getUserByEmail"
      /\ calls[p].returned # NoUser
      /\ \E u \in users :
           /\ u.userId = calls[p].returned.userId
           /\ u.password = hashPassword("N3wPassw0rd")

RECURSIVE CodeValue(_)
CodeValue(code) ==
    IF Len(code) = 0 THEN 0
    ELSE 10 * CodeValue(SubSeq(code, 1, Len(code) - 1))
         + ( CHOOSE d \in 0..9 : DigitChar(d) = code[Len(code)] )

\* Six decimal digits denoting a number from 100000 to 999999.
WellFormedCode(code) ==
    /\ ~ NotSixDecimalDigits(code)
    /\ CodeValue(code) >= 100000
    /\ CodeValue(code) <= 999999

\* C31: every code generateResetCode produces, and so every code stored as a
\* reset or verification code, is six decimal digits with a value from
\* 100000 to 999999; a verifyEmail presenting the stored code is never
\* rejected for its format.
C31_CodesAreSixDigits ==
    /\ \A code \in generateResetCode : WellFormedCode(code)
    /\ \A row \in resetCodes \cup verificationCodes : WellFormedCode(row.code)
    /\ \A p \in Procs :
         ( calls[p].op = "verifyEmail" /\ calls[p].pc = "done"
           /\ calls[p].note \in { "before", "at", "after" } )
         => calls[p].result # "INVALID_CODE_FORMAT"

\* The largest code, 999999, was issued as a verification code and accepted
\* by verifyEmail.
C31_Witness ==
    \E p \in Procs :
      /\ calls[p].op = "verifyEmail"
      /\ calls[p].pc = "done"
      /\ calls[p].result = "OK"
      /\ CodeValue(calls[p].code) = 999999

\* The positions a resetPassword or verifyEmail reaches only after it has
\* found the stored code to match.
Committed == { "rp_purge", "rp_update", "rp_delete", "ve_purge", "ve_delete" }

\* C32: a resetPassword or verifyEmail writes nothing before it has found
\* the stored code to match, and from then on it ends only with success or
\* with the expired outcome; so a call that fails with USER_NOT_FOUND, with a
\* not-found or invalid code or with INVALID_CODE_FORMAT has left the
\* accounts and the three secret tables as they were.  A failing loginUser
\* changes nothing.
C32_FailureLeavesStateAlone ==
    [][ \A p \in Procs :
          /\ ( StepOf(p, { "resetPassword", "verifyEmail" })
               /\ calls[p].pc \notin Committed )
             => tables' = tables
          /\ ( StepOf(p, { "resetPassword", "verifyEmail" })
               /\ calls[p].pc \in Committed )
             => \/ calls'[p].pc \in Committed
                \/ /\ calls'[p].pc = "done"
                   /\ calls'[p].result \in { "OK", "RESET_CODE_EXPIRED",
                                             "VERIFICATION_CODE_EXPIRED" }
          /\ ( Takes(p, "loginUser", "lu_select") /\ calls'[p].result # "OK" )
             => /\ tables' = tables
                /\ history' = history
                /\ uuids' = uuids ]_vars

\* A resetPassword failed on a wrong code while the account, its reset code
\* and a verification code of the same email were stored.
C32_Witness ==
    \E p \in Procs :
      /\ calls[p].op = "resetPassword"
      /\ calls[p].pc = "done"
      /\ calls[p].result = "INVALID_RESET_CODE"
      /\ ByEmail(users, calls[p].email) # {}
      /\ ByEmail(resetCodes, calls[p].email) # {}
      /\ ByEmail(verificationCodes, calls[p].email) # {}

\* C33: whenever no request is in flight, every reset code, verification
\* code and confirmation token is keyed by the email of an account that
\* exists.
C33_SecretsBelongToAccounts ==
    Quiet =>
    \A row \in resetCodes \cup verificationCodes \cup confirmationTokens :
      \E u \in users : u.email = row.email

\* C34: the reset code issued to account 1 while it held a@x.com, the only
\* code issued for that email so far, changes the password of no other
\* account.
C34_SecretBoundToItsAccount ==
    [][ \A p \in Procs :
          ( Takes(p, "resetPassword", "rp_update")
            /\ calls[p].email = "a@x.com"
            /\ calls[p].seen = 1 )
          => \A u \in users :
               u.userId # 1
               => \E v \in users' : v.userId = u.userId /\ v.password = u.password ]_vars

\* C35: a resetPassword that validated the code of one issue changes the
\* password only while that issue is still the latest for the email, and its
\* final delete leaves a code issued since then where it is.
C35_ResetTouchesOnlyValidatedCode ==
    [][ \A p \in Procs :
          /\ Takes(p, "resetPassword", "rp_update")
             => \/ calls[p].seen = Len(resetIssues[calls[p].email])
                \/ users' = users
          /\ ( Takes(p, "resetPassword", "rp_delete")
               /\ calls[p].seen < Len(resetIssues[calls[p].email]) )
             => resetCodes' = resetCodes ]_vars

\* C36: of the confirmAccountByToken calls made with one token, at most one
\* succeeds: a call that succeeds is the first to consume its token.
C36_OneConfirmationPerToken ==
    [][ \A p \in Procs :
          ( Takes(p, "confirmAccountByToken", "ca_delete")
            /\ calls'[p].pc = "done" /\ calls'[p].result = "OK" )
          => calls[p].token \notin consumed ]_vars

\* C37: a createUser that ends in an error leaves behind no account that it
\* inserted itself.
C37_CreateUserAllOrNothing ==
    [][ \A p \in Procs :
          ( /\ calls[p].op = "createUser"
            /\ ~ Idle(p)
            /\ calls'[p].pc = "done"
            /\ calls'[p].result # "OK" )
          => ~ \E u \in users' : /\ calls[p].userId # NoUserId
                                 /\ u.userId = calls[p].userId ]_vars

\* C38: when an issuing operation calls the notifier, the secret it hands
\* over is already stored, and it is the one secret stored for the email.
C38_StoredBeforeDelivered ==
    [][ \A p \in Procs :
          /\ Takes(p, "sendResetCode", "sr_send")
             => ByEmail(resetCodes, calls[p].email)
                  = { [ email |-> calls[p].email, code |-> calls[p].genCode,
                        expiresAt |-> calls[p].expiresAt ] }
          /\ Takes(p, "sendVerificationCode", "sv_send")
             => ByEmail(verificationCodes, calls[p].email)
                  = { [ email |-> calls[p].email, code |-> calls[p].genCode,
                        expiresAt |-> calls[p].expiresAt ] }
          /\ ( StepOf(p, { "createUser", "resendConfirmationEmail" })
               /\ calls[p].pc = "gt_send" )
             => ByEmail(confirmationTokens, calls[p].email)
                  = { [ email |-> calls[p].email, token |-> calls[p].genToken ] } ]_vars

\* A verification code was handed to a transport that delivered it, and the
\* code returned to the caller is the one stored for the email.
C38_Witness ==
    \E p \in Procs :
      /\ calls[p].op = "sendVerificationCode"
      /\ calls[p].pc = "done"
      /\ calls[p].result = "OK"
      /\ calls[p].note = "sent"
      /\ \E row \in verificationCodes :
           row.email = calls[p].email /\ row.code = calls[p].genCode

====
